---- MODULE Spec2Model ----
(***************************************************************************)
(* Model of anwit-paul/encryption-conversion: text -> AES-GCM payload ->   *)
(* PNG carrier image and back (src/unnamed/part_000: aesEncrypt and        *)
(* aesDecrypt; src/src/App.js, second component: handleEncode,             *)
(* handleDecode, imageToText).                                             *)
(*                                                                         *)
(* A JavaScript string is a sequence of UTF-16 code units (naturals below  *)
(* 65536), a Uint8Array a sequence of naturals below 256.  The platform    *)
(* primitives the code calls are modelled by what they do: TextEncoder and *)
(* TextDecoder by the WHATWG UTF-8 encoder and decoder, the canvas by its  *)
(* premultiplied bitmap, PBKDF2 by the HMAC key it is a function of, and   *)
(* AES-GCM by a counter-mode keystream with a polynomial tag over key, IV  *)
(* and ciphertext.                                                         *)
(***************************************************************************)
EXTENDS Integers, Sequences, FiniteSets, TLC

VARIABLES
    textInput,      \* useState "textInput": the textarea's text
    textFileInput,  \* useState "textFileInput": the selected text file, or NoTextFile
    isTextFileMode, \* useState "isTextFileMode"
    imageUrl,       \* useState "imageUrl": the displayed object URL, or NoUrl
    decodedText,    \* useState "decodedText"
    message,        \* useState "message"
    isProcessing,   \* useState "isProcessing"
    liveUrls,       \* object URLs created by URL.createObjectURL and not revoked
    ops,            \* the handler invocations in flight, one record per slot
    lastEvent,      \* history: what the last step ended (an invocation's return)
    pipe            \* one run of encrypt -> encode -> decode -> decrypt

vars == <<textInput, textFileInput, isTextFileMode, imageUrl, decodedText,
          message, isProcessing, liveUrls, ops, lastEvent, pipe>>

appVars == <<textInput, textFileInput, isTextFileMode, imageUrl, decodedText,
             message, isProcessing, liveUrls, ops, lastEvent>>

\* null, for an object URL (the URLs are 1, 2, ...)
NoUrl == 0

(***************************************************************************)
(* Bounds of the model.                                                    *)
(***************************************************************************)
MaxPlainLen == 2
MaxPinLen == 2
MaxRawLen == 4
MaxUrlId == 2

(***************************************************************************)
(* Program constants.                                                      *)
(***************************************************************************)
IV_LENGTH == 12
TAG_LENGTH == 16

\* All sequences over S of length lo..hi.
SeqsOf(S, lo, hi) == UNION {[1..k -> S] : k \in lo..hi}

Min(a, b) == IF a < b THEN a ELSE b

(***************************************************************************)
(* TextEncoder.encode: a DOMString is first converted to a USVString       *)
(* (every unpaired surrogate becomes U+FFFD), then UTF-8 encoded.          *)
(***************************************************************************)
IsHighSurrogate(c) == c >= 55296 /\ c <= 56319
IsLowSurrogate(c) == c >= 56320 /\ c <= 57343
IsSurrogate(c) == c >= 55296 /\ c <= 57343

Utf8OfCodePoint(cp) ==
    IF cp < 128 THEN <<cp>>
    ELSE IF cp < 2048 THEN <<192 + (cp \div 64), 128 + (cp % 64)>>
    ELSE IF cp < 65536 THEN
        <<224 + (cp \div 4096), 128 + ((cp \div 64) % 64), 128 + (cp % 64)>>
    ELSE <<240 + (cp \div 262144), 128 + ((cp \div 4096) % 64),
           128 + ((cp \div 64) % 64), 128 + (cp % 64)>>

RECURSIVE TextEncodeFrom(_, _)
TextEncodeFrom(s, i) ==
    IF i > Len(s) THEN <<>>
    ELSE IF IsHighSurrogate(s[i]) /\ i < Len(s) /\ IsLowSurrogate(s[i + 1]) THEN
        Utf8OfCodePoint(65536 + (s[i] - 55296) * 1024 + (s[i + 1] - 56320))
            \o TextEncodeFrom(s, i + 2)
    ELSE IF IsSurrogate(s[i]) THEN
        Utf8OfCodePoint(65533) \o TextEncodeFrom(s, i + 1)
    ELSE Utf8OfCodePoint(s[i]) \o TextEncodeFrom(s, i + 1)

TextEncode(s) == TextEncodeFrom(s, 1)

(***************************************************************************)
(* TextDecoder.decode with the defaults (utf-8, fatal = false,             *)
(* ignoreBOM = false): a leading EF BB BF is dropped, every ill-formed     *)
(* subsequence becomes U+FFFD and decoding resumes at the offending byte.  *)
(***************************************************************************)
CodeUnitsOf(cp) ==
    IF cp < 65536 THEN <<cp>>
    ELSE <<55296 + ((cp - 65536) \div 1024), 56320 + ((cp - 65536) % 1024)>>

\* Number of continuation bytes the lead byte b announces, -1 if b is no lead.
Utf8Needed(b) ==
    IF b < 128 THEN 0
    ELSE IF b >= 194 /\ b <= 223 THEN 1
    ELSE IF b >= 224 /\ b <= 239 THEN 2
    ELSE IF b >= 240 /\ b <= 244 THEN 3
    ELSE -1

Utf8Lower(b) == IF b = 224 THEN 160 ELSE IF b = 240 THEN 144 ELSE 128
Utf8Upper(b) == IF b = 237 THEN 159 ELSE IF b = 244 THEN 143 ELSE 191
Utf8LeadBits(b) ==
    IF b < 128 THEN b
    ELSE IF b <= 223 THEN b - 192
    ELSE IF b <= 239 THEN b - 224
    ELSE b - 240

RECURSIVE Utf8DecodeFrom(_, _)
RECURSIVE Utf8Continue(_, _, _, _, _, _)
\* cp: the bits read so far; need: continuation bytes still to read;
\* lo..hi: the range allowed for the next byte.
Utf8Continue(b, i, cp, need, lo, hi) ==
    IF need = 0 THEN CodeUnitsOf(cp) \o Utf8DecodeFrom(b, i)
    ELSE IF i > Len(b) THEN <<65533>>
    ELSE IF b[i] < lo \/ b[i] > hi THEN <<65533>> \o Utf8DecodeFrom(b, i)
    ELSE Utf8Continue(b, i + 1, cp * 64 + (b[i] - 128), need - 1, 128, 191)

Utf8DecodeFrom(b, i) ==
    IF i > Len(b) THEN <<>>
    ELSE IF Utf8Needed(b[i]) < 0 THEN <<65533>> \o Utf8DecodeFrom(b, i + 1)
    ELSE Utf8Continue(b, i + 1, Utf8LeadBits(b[i]), Utf8Needed(b[i]),
                      Utf8Lower(b[i]), Utf8Upper(b[i]))

HasBom(b) == Len(b) >= 3 /\ b[1] = 239 /\ b[2] = 187 /\ b[3] = 191

TextDecode(b) == IF HasBom(b) THEN Utf8DecodeFrom(b, 4) ELSE Utf8DecodeFrom(b, 1)

(***************************************************************************)
(* deriveKey (part_000:14-38).  PBKDF2-HMAC-SHA-256 with a fixed salt and  *)
(* iteration count is a function of the HMAC key alone, and HMAC pads a    *)
(* key shorter than its 64-byte block with zero bytes: the derived key is  *)
(* represented by the encoded pin without its trailing zero bytes, and     *)
(* PBKDF2 is taken to be injective on that (pins longer than the block are *)
(* beyond the bounds of the model).                                        *)
(***************************************************************************)
RECURSIVE StripTrailingZeros(_)
StripTrailingZeros(b) ==
    IF Len(b) > 0 /\ b[Len(b)] = 0
    THEN StripTrailingZeros(SubSeq(b, 1, Len(b) - 1))
    ELSE b

\* deriveKey with the key material taken from the salt, not from the pin.
DeriveKeyIgnoringPin(pin) == <<>>

deriveKey(pin) == StripTrailingZeros(TextEncode(pin))

(***************************************************************************)
(* AES-GCM (crypto.subtle.encrypt / decrypt, part_000:53-57 and 91-95).    *)
(* Counter mode: the ciphertext is the data xor a keystream that is a      *)
(* function of key, IV and position; the 16-byte tag is a polynomial hash  *)
(* of key, IV and ciphertext, byte j evaluated at its own point modulo the *)
(* prime 257.  Decryption recomputes the tag and fails on a mismatch or on *)
(* an input shorter than the tag.                                          *)
(***************************************************************************)
RECURSIVE BitXor(_, _)
BitXor(a, b) ==
    IF a = 0 THEN b
    ELSE IF b = 0 THEN a
    ELSE ((a + b) % 2) + 2 * BitXor(a \div 2, b \div 2)

RECURSIVE MixFrom(_, _, _, _)
MixFrom(m, i, r, h) ==
    IF i > Len(m) THEN h ELSE MixFrom(m, i + 1, r, (h * r + m[i] + 1) % 257)

Mix(m, r) == MixFrom(m, 1, r, 1) % 256

KeyStream(key, iv, i) == Mix(key \o <<256>> \o iv \o <<256, i>>, 131)

GcmCrypt(key, iv, data) ==
    [i \in 1..Len(data) |-> BitXor(data[i], KeyStream(key, iv, i))]

GcmTag(key, iv, ct) ==
    [j \in 1..TAG_LENGTH |-> Mix(key \o <<256>> \o iv \o <<256>> \o ct, 2 * j + 1)]

AesGcmEncrypt(key, iv, data) ==
    LET ct == GcmCrypt(key, iv, data) IN ct \o GcmTag(key, iv, ct)

\* Decryption that does not verify the tag.
AesGcmDecryptUnauthenticated(key, iv, buf) ==
    IF Len(buf) < TAG_LENGTH THEN [ok |-> TRUE, value |-> <<>>]
    ELSE [ok |-> TRUE,
          value |-> GcmCrypt(key, iv, SubSeq(buf, 1, Len(buf) - TAG_LENGTH))]

AesGcmDecrypt(key, iv, buf) ==
    IF Len(buf) < TAG_LENGTH THEN [ok |-> FALSE, value |-> <<>>]
    ELSE LET ct  == SubSeq(buf, 1, Len(buf) - TAG_LENGTH)
             tag == SubSeq(buf, Len(buf) - TAG_LENGTH + 1, Len(buf))
         IN IF tag = GcmTag(key, iv, ct)
            THEN [ok |-> TRUE, value |-> GcmCrypt(key, iv, ct)]
            ELSE [ok |-> FALSE, value |-> <<>>]

(***************************************************************************)
(* aesEncrypt (part_000:47-70); iv is what getRandomValues returned.  The  *)
(* result is the binary string of IV + ciphertext + tag.                   *)
(***************************************************************************)
aesEncrypt(plaintext, pin, iv) ==
    LET key  == deriveKey(pin)
        data == TextEncode(plaintext)
        fullEncryptedData == iv \o AesGcmEncrypt(key, iv, data)
    IN  [i \in 1..Len(fullEncryptedData) |-> fullEncryptedData[i]]

(***************************************************************************)
(* aesDecrypt (part_000:78-99): [ok |-> TRUE, value |-> the plaintext] or, *)
(* when crypto.subtle.decrypt rejects, ok |-> FALSE and the error's name.  *)
(***************************************************************************)
aesDecrypt(encryptedText, pin) ==
    LET key == deriveKey(pin)
        fullEncryptedData ==
            [i \in 1..Len(encryptedText) |-> encryptedText[i] % 256]
        n   == Len(fullEncryptedData)
        iv  == SubSeq(fullEncryptedData, 1, Min(IV_LENGTH, n))
        ciphertextBuffer == SubSeq(fullEncryptedData, IV_LENGTH + 1, n)
        decryptedBuffer == AesGcmDecrypt(key, iv, ciphertextBuffer)
    IN  IF decryptedBuffer.ok
        THEN [ok |-> TRUE, value |-> TextDecode(decryptedBuffer.value),
              error |-> ""]
        ELSE [ok |-> FALSE, value |-> <<>>, error |-> "OperationError"]

(***************************************************************************)
(* The encode step of handleEncode (App.js:460-489): dimensions, a zeroed  *)
(* ImageData, one pixel per character.  An image is a record of width,     *)
(* height and data, the RGBA bytes in row-major order.                     *)
(***************************************************************************)
RECURSIVE CeilSqrtFrom(_, _)
CeilSqrtFrom(n, w) == IF w * w >= n THEN w ELSE CeilSqrtFrom(n, w + 1)

\* Math.floor(Math.sqrt(n))
FloorSqrt(n) == IF CeilSqrtFrom(n, 0) * CeilSqrtFrom(n, 0) = n
                THEN CeilSqrtFrom(n, 0) ELSE CeilSqrtFrom(n, 0) - 1

\* Math.ceil(Math.sqrt(n))
CeilSqrt(n) == CeilSqrtFrom(n, 0)

\* Math.ceil(n / w), w > 0
CeilDiv(n, w) == (n + w - 1) \div w

\* A store into a Uint8ClampedArray.
Uint8Clamp(x) == IF x < 0 THEN 0 ELSE IF x > 255 THEN 255 ELSE x

\* ctx.createImageData(width, height): transparent black.
createImageData(width, height) ==
    [width |-> width, height |-> height,
     data |-> [k \in 1..(4 * width * height) |-> 0]]

\* The pixel loop with dataIndex advancing by 3: pixels overlap.
PixelLoopStride3(data, encryptedContent) ==
    [k \in 1..Len(data) |->
        LET i == (k - 1) \div 3
            ch == (k - 1) % 3
        IN  IF i < Len(encryptedContent) /\ ch = 0
            THEN Uint8Clamp(encryptedContent[i + 1])
            ELSE IF k >= 4 /\ (k - 4) % 3 = 0
                    /\ (k - 4) \div 3 < Len(encryptedContent) THEN 255
            ELSE data[k]]

\* The pixel loop without the alpha store.
PixelLoopNoAlpha(data, encryptedContent) ==
    [k \in 1..Len(data) |->
        LET i == (k - 1) \div 4
            ch == (k - 1) % 4
        IN  IF i < Len(encryptedContent) /\ ch = 0
            THEN Uint8Clamp(encryptedContent[i + 1])
            ELSE data[k]]

\* The pixel loop (App.js:476-486): data[dataIndex] = ascii,
\* data[dataIndex + 3] = 255, dataIndex += 4.
PixelLoop(data, encryptedContent) ==
    [k \in 1..Len(data) |->
        LET i == (k - 1) \div 4
            ch == (k - 1) % 4
        IN  IF i < Len(encryptedContent) /\ ch = 0
            THEN Uint8Clamp(encryptedContent[i + 1])
            ELSE IF i < Len(encryptedContent) /\ ch = 3 THEN 255
            ELSE data[k]]

EncodeImage(encryptedContent) ==
    LET totalChars == Len(encryptedContent)
        width  == CeilSqrt(totalChars)
        height == CeilDiv(totalChars, width)
        imageData == createImageData(width, height)
    IN  [imageData EXCEPT !.data = PixelLoop(imageData.data, encryptedContent)]

(***************************************************************************)
(* The canvas.  Its bitmap holds premultiplied colour: putImageData and    *)
(* drawImage multiply each colour by alpha / 255, getImageData and the PNG *)
(* serialisation of toBlob divide again.  Exact for alpha 255; at alpha 0  *)
(* the colour is lost.                                                     *)
(***************************************************************************)
Premultiply(data) ==
    [k \in 1..Len(data) |->
        LET a == data[k + 3 - ((k - 1) % 4)]
        IN  IF (k - 1) % 4 = 3 THEN a ELSE (data[k] * a + 127) \div 255]

Unpremultiply(data) ==
    [k \in 1..Len(data) |->
        LET a == data[k + 3 - ((k - 1) % 4)]
        IN  IF (k - 1) % 4 = 3 THEN a
            ELSE IF a = 0 THEN 0
            ELSE Min(255, (data[k] * 255 + (a \div 2)) \div a)]

\* ctx.putImageData(imageData, 0, 0): the canvas bitmap.
putImageData(imageData) == [imageData EXCEPT !.data = Premultiply(imageData.data)]

\* canvas.toBlob(..., "image/png"): the PNG file, lossless.
toBlob(bitmap) ==
    [kind |-> "png", width |-> bitmap.width, height |-> bitmap.height,
     data |-> Unpremultiply(bitmap.data)]

\* img.onload, ctx.drawImage(img, 0, 0): the bitmap of a canvas of the image's size.
drawImage(img) ==
    [width |-> img.width, height |-> img.height, data |-> Premultiply(img.data)]

\* ctx.getImageData(0, 0, canvas.width, canvas.height)
getImageData(bitmap) == [bitmap EXCEPT !.data = Unpremultiply(bitmap.data)]

(***************************************************************************)
(* imageToText (App.js:555-591): the red channel of each pixel in order,   *)
(* up to the first zero.                                                   *)
(***************************************************************************)
\* The scan with continue in place of break.
RECURSIVE ScanSkippingZero(_, _)
ScanSkippingZero(data, i) ==
    IF i > Len(data) THEN <<>>
    ELSE IF data[i] = 0 THEN ScanSkippingZero(data, i + 4)
    ELSE <<data[i]>> \o ScanSkippingZero(data, i + 4)

RECURSIVE ScanPixels(_, _)
ScanPixels(data, i) ==
    IF i > Len(data) THEN <<>>
    ELSE IF data[i] = 0 THEN <<>>
    ELSE <<data[i]>> \o ScanPixels(data, i + 4)

\* [ok |-> TRUE, value |-> text], or the rejection of img.onerror.
imageToText(imageFile) ==
    IF imageFile.kind # "png"
    THEN [ok |-> FALSE, value |-> <<>>, error |-> "Could not load image."]
    ELSE [ok |-> TRUE, error |-> "",
          value |-> ScanPixels(getImageData(drawImage(imageFile)).data, 1)]

(***************************************************************************)
(* The codec pipeline on its own: one run of aesEncrypt, the encode step,  *)
(* imageToText and aesDecrypt over bounded inputs.  A run starts from a    *)
(* plaintext, a pin and an IV, or (src = "raw") from a byte sequence put   *)
(* directly into the encode step.                                          *)
(***************************************************************************)
\* 'A', U+FEFF, an unpaired high and an unpaired low surrogate
PlainUnits == {65, 65279, 55296, 56320}
Hello == <<104, 101, 108, 108, 111>>
Plaintexts == SeqsOf(PlainUnits, 0, MaxPlainLen) \cup {Hello}

\* '1' and U+0000; "1234", "0000", an unpaired surrogate and U+FFFD
PinUnits == {49, 0}
Pins == SeqsOf(PinUnits, 1, MaxPinLen)
            \cup {<<49, 50, 51, 52>>, <<48, 48, 48, 48>>, <<55296>>, <<65533>>}

\* Two values of getRandomValues(new Uint8Array(IV_LENGTH)), one with a zero byte.
IVs == {[i \in 1..IV_LENGTH |-> 16 * i + 1],
        [i \in 1..IV_LENGTH |-> IF i = 5 THEN 0 ELSE 255 - 3 * i]}

RawBytes == {0, 7, 255}
RawPayloads == SeqsOf(RawBytes, 1, MaxRawLen)

NoImage == [width |-> 0, height |-> 0, data |-> <<>>]
NoFile == [kind |-> "none", width |-> 0, height |-> 0, data |-> <<>>]
NoResult == [ok |-> FALSE, value |-> <<>>, error |-> ""]

PipeStart(src, P, K, iv, payload) ==
    [stage |-> IF src = "aes" THEN "input" ELSE "payload",
     src |-> src, P |-> P, K |-> K, iv |-> iv, payload |-> payload,
     image |-> NoImage, png |-> NoFile, decoded |-> <<>>,
     K2 |-> <<>>, direct |-> NoResult, result |-> NoResult]

PipeInputs ==
    {PipeStart("aes", P, K, iv, <<>>) : P \in Plaintexts, K \in Pins, iv \in IVs}
        \cup {PipeStart("raw", <<>>, <<>>, <<>>, b) : b \in RawPayloads}

PipeEncrypt ==
    /\ pipe.stage = "input"
    /\ pipe' = [pipe EXCEPT !.stage = "payload",
                            !.payload = aesEncrypt(pipe.P, pipe.K, pipe.iv)]
    /\ UNCHANGED appVars

\* App.js:460-497: the image data, and the PNG that toBlob hands out.
PipeEncode ==
    /\ pipe.stage = "payload"
    /\ pipe' = [pipe EXCEPT !.stage = "image",
                            !.image = EncodeImage(pipe.payload),
                            !.png = toBlob(putImageData(EncodeImage(pipe.payload)))]
    /\ UNCHANGED appVars

PipeDecode ==
    /\ pipe.stage = "image"
    /\ pipe' = [pipe EXCEPT !.stage = "decoded",
                            !.decoded = imageToText(pipe.png).value]
    /\ UNCHANGED appVars

\* aesDecrypt with any pin, of the payload as encrypted (direct) and of the
\* text read back from the image (result).
PipeDecrypt ==
    /\ pipe.stage = "decoded"
    /\ pipe.src = "aes"
    /\ \E K2 \in Pins :
        pipe' = [pipe EXCEPT !.stage = "decrypted",
                             !.K2 = K2,
                             !.direct = aesDecrypt(pipe.payload, K2),
                             !.result = aesDecrypt(pipe.decoded, K2)]
    /\ UNCHANGED appVars

NextCodec == PipeEncrypt \/ PipeEncode \/ PipeDecode \/ PipeDecrypt

(***************************************************************************)
(* The App component (App.js:395-744): its state, the files and prompt     *)
(* answers the user can give, and the handlers.  An async handler runs in  *)
(* segments, each from one await to the next; ops[o].pc names the await an *)
(* invocation is suspended at.  Two invocations can be in flight at once.  *)
(***************************************************************************)
Slots == {1, 2}

NoTextFile == [kind |-> "none", readable |-> FALSE, bytes |-> <<>>]
TextFiles == {[kind |-> "txt", readable |-> TRUE, bytes |-> <<>>],
              [kind |-> "txt", readable |-> TRUE, bytes |-> <<65>>],
              [kind |-> "txt", readable |-> FALSE, bytes |-> <<>>]}

\* What can be typed into the textarea: " ", " A" (it starts as "").
TypedTexts == {<<32>>, <<32, 65>>}

\* window.prompt: null when cancelled, else the string entered ("", "1", "2").
PromptAnswers(pins) == {[cancelled |-> TRUE, value |-> <<>>]}
    \cup {[cancelled |-> FALSE, value |-> v] : v \in {<<>>} \cup pins}
EncodePins == {<<49>>}
DecodePins == {<<49>>, <<50>>}

\* The PNG that encoding payload gives, named by label.
PngOf(payload, label) ==
    [toBlob(putImageData(EncodeImage(payload))) EXCEPT !.kind = "png"]
        @@ [label |-> label]

Tamper(payload) ==
    [payload EXCEPT ![IV_LENGTH + 1] = IF @ = 255 THEN 254 ELSE @ + 1]

IvOf(zero) == CHOOSE iv \in IVs : (\E i \in 1..IV_LENGTH : iv[i] = 0) = zero

\* The files offered to the decoder: "A" encrypted under pin "1", intact, with a
\* zero byte in its IV and with one ciphertext byte changed; and a file that is
\* no image.
DecodeFiles ==
    {PngOf(aesEncrypt(<<65>>, <<49>>, IvOf(FALSE)), "intact"),
     PngOf(aesEncrypt(<<65>>, <<49>>, IvOf(TRUE)), "zero_byte"),
     PngOf(Tamper(aesEncrypt(<<65>>, <<49>>, IvOf(FALSE))), "tampered"),
     [kind |-> "other", width |-> 0, height |-> 0, data |-> <<>>,
      label |-> "not_image"]}

NoDecodeFile == NoFile @@ [label |-> "none"]

\* imageUrl and decodedText are the values of the render the handler was created
\* in, i.e. what was displayed when the operation started.
IdleOp == [pc |-> "idle", imageUrl |-> NoUrl, decodedText |-> <<>>,
           content |-> <<>>, pin |-> <<>>,
           file |-> NoDecodeFile, textFile |-> NoTextFile, text |-> <<>>,
           blob |-> NoFile, label |-> "none"]

Event(type, cause) == [type |-> type, cause |-> cause]
NoEvent == Event("none", "none")

\* String.prototype.trim
IsWhiteSpace(c) == c \in {9, 10, 11, 12, 13, 32, 160, 8232, 8233, 65279}

RECURSIVE TrimStart(_)
TrimStart(s) ==
    IF Len(s) > 0 /\ IsWhiteSpace(s[1]) THEN TrimStart(Tail(s)) ELSE s

RECURSIVE TrimEnd(_)
TrimEnd(s) ==
    IF Len(s) > 0 /\ IsWhiteSpace(s[Len(s)])
    THEN TrimEnd(SubSeq(s, 1, Len(s) - 1)) ELSE s

Trim(s) == TrimEnd(TrimStart(s))

\* readFileContent (App.js:411-418): reader.readAsText(file)
readFileContent(file) ==
    IF file.readable
    THEN [ok |-> TRUE, value |-> TextDecode(file.bytes), error |-> ""]
    ELSE [ok |-> FALSE, value |-> <<>>, error |-> "Could not read text file."]

AppInit ==
    /\ textInput = <<>>
    /\ textFileInput = NoTextFile
    /\ isTextFileMode = FALSE
    /\ imageUrl = NoUrl
    /\ decodedText = <<>>
    /\ message = ""
    /\ isProcessing = FALSE
    /\ liveUrls = {}
    /\ ops = [o \in Slots |-> IdleOp]
    /\ lastEvent = NoEvent

PipeIdle == [PipeStart("raw", <<>>, <<>>, <<>>, <<>>) EXCEPT !.stage = "unused"]

Init == AppInit /\ pipe = PipeIdle

InitCodec == AppInit /\ pipe \in PipeInputs

\* The slot a new invocation takes.
FreeSlots == {o \in Slots : ops[o].pc = "idle"}
NewSlot == CHOOSE o \in FreeSlots : \A q \in FreeSlots : o <= q

InFlight == {o \in Slots : ops[o].pc # "idle"}

\* An object URL that is not in use anywhere.
UnusedUrls == {u \in 1..MaxUrlId :
                 /\ u \notin liveUrls
                 /\ u # imageUrl
                 /\ \A o \in Slots : ops[o].imageUrl # u}
createObjectURL == CHOOSE u \in UnusedUrls : \A v \in UnusedUrls : u <= v

\* URL.revokeObjectURL(url), guarded by if (imageUrl)
Revoke(url) == liveUrls \ {url}

(***************************************************************************)
(* The results of the asynchronous calls of the handlers, tabulated over   *)
(* the contents, pins and files the app is given.                          *)
(***************************************************************************)
\* What handleEncode can pass to aesEncrypt: the trimmed text, a file's text.
EncodeContents == {Trim(t) : t \in TypedTexts}
                      \cup {readFileContent(f).value : f \in TextFiles}

\* The IV aesEncrypt draws in the app.
EncodeIVs == {IvOf(FALSE)}

\* App.js:449-492: aesEncrypt, the encode step, and the blob toBlob hands out.
EncodedBlob ==
    [c \in EncodeContents, p \in EncodePins, iv \in EncodeIVs |->
        toBlob(putImageData(EncodeImage(aesEncrypt(c, p, iv))))]

\* App.js:533: imageToText of each file.
ImageText == [f \in DecodeFiles |-> imageToText(f)]

\* App.js:537: aesDecrypt of each text read from a file, under each pin.
DecryptedText ==
    [t \in {ImageText[f].value : f \in DecodeFiles}, p \in DecodePins |->
        aesDecrypt(t, p)]

(***************************************************************************)
(* The input widgets (App.js:609-626, 651-682).                            *)
(***************************************************************************)
SetTextInput ==
    /\ ~isProcessing
    /\ ~isTextFileMode
    /\ \E t \in TypedTexts : textInput' = t
    /\ UNCHANGED <<textFileInput, isTextFileMode, imageUrl, decodedText, message,
                   isProcessing, liveUrls, ops, pipe>>
    /\ lastEvent' = NoEvent

handleTextFileChange ==
    /\ ~isProcessing
    /\ isTextFileMode
    /\ \E file \in TextFiles \cup {NoTextFile} :
        /\ textFileInput' = file
        /\ textInput' = IF file # NoTextFile THEN <<>> ELSE textInput
    /\ UNCHANGED <<isTextFileMode, imageUrl, decodedText, message,
                   isProcessing, liveUrls, ops, pipe>>
    /\ lastEvent' = NoEvent

toggleInputMode ==
    /\ ~isProcessing
    /\ isTextFileMode' = ~isTextFileMode
    /\ IF isTextFileMode
       THEN textFileInput' = NoTextFile /\ UNCHANGED textInput
       ELSE textInput' = <<>> /\ UNCHANGED textFileInput
    /\ UNCHANGED <<imageUrl, decodedText, message,
                   isProcessing, liveUrls, ops, pipe>>
    /\ lastEvent' = NoEvent

(***************************************************************************)
(* handleEncode (App.js:420-503).                                          *)
(***************************************************************************)
MsgSelectFile == "Please select a text file to encode."
MsgReadError == "Error reading file: Could not read text file."
MsgEnterText == "Please enter text to encode."
MsgEncodeCancelled == "Encryption cancelled: PIN is required."
MsgEncoding == "Encrypting and encoding text to PNG..."
MsgEncoded == "Encrypted PNG generated successfully! Remember your PIN."
\* App.js:500, the message of handleEncode's catch block
MsgEncodeError == "Error encoding: <error.message>"
MsgDecodeCancelled == "Decryption cancelled: PIN is required."
MsgDecoding == "Decoding image to text..."
MsgDecoded == "Image decoded and decrypted successfully!"
MsgDecodeError == "Error decoding/decrypting"

\* The invocations in flight, oldest first, in the lowest slots.
IsBusy(op) == op.pc # "idle"
Compact(f) ==
    LET busy == SelectSeq([i \in 1..Cardinality(Slots) |-> f[i]], IsBusy)
    IN  [i \in Slots |-> IF i <= Len(busy) THEN busy[i] ELSE IdleOp]

\* An invocation returns: it is in flight no more.
Return(o, type, cause) ==
    /\ ops' = Compact([ops EXCEPT ![o] = IdleOp])
    /\ lastEvent' = Event(type, cause)

\* App.js:443-449: the pin prompt, then the call of aesEncrypt.  url is the
\* imageUrl of the render the handler was created in.
EncodePrompt(o, contentToEncode, url) ==
    \E answer \in PromptAnswers(EncodePins) :
        IF answer.cancelled \/ answer.value = <<>>
        THEN /\ message' = MsgEncodeCancelled
             /\ Return(o, "encode_no_pin", "none")
        ELSE /\ ops' = [ops EXCEPT ![o] =
                    [IdleOp EXCEPT !.pc = "enc_crypt",
                                   !.content = contentToEncode,
                                   !.pin = answer.value,
                                   !.imageUrl = url]]
             /\ lastEvent' = NoEvent /\ UNCHANGED message

\* The button is rendered with
\* disabled={isProcessing || (!textInput.trim() && !textFileInput)}.
EncodeButtonEnabled ==
    ~isProcessing /\ (Trim(textInput) # <<>> \/ textFileInput # NoTextFile)

\* App.js:420-449, the click up to the first await.
EncodeStart ==
    /\ EncodeButtonEnabled
    /\ FreeSlots # {}
    /\ IF isTextFileMode
       THEN IF textFileInput = NoTextFile
            THEN /\ message' = MsgSelectFile
                 /\ Return(NewSlot, "encode_no_input", "none")
            ELSE /\ ops' = [ops EXCEPT ![NewSlot] =
                        [IdleOp EXCEPT !.pc = "enc_read",
                                       !.textFile = textFileInput,
                                       !.imageUrl = imageUrl,
                                       !.decodedText = decodedText]]
                 /\ lastEvent' = NoEvent /\ UNCHANGED message
       ELSE IF Trim(textInput) = <<>>
            THEN /\ message' = MsgEnterText
                 /\ Return(NewSlot, "encode_no_input", "none")
            ELSE EncodePrompt(NewSlot, Trim(textInput), imageUrl)
    /\ UNCHANGED <<textInput, textFileInput, isTextFileMode, imageUrl, decodedText,
                   isProcessing, liveUrls, pipe>>

\* App.js:428-449: readFileContent settles.
EncodeFileRead(o) ==
    /\ ops[o].pc = "enc_read"
    /\ LET contentToEncode == readFileContent(ops[o].textFile)
       IN  IF contentToEncode.ok
           THEN EncodePrompt(o, contentToEncode.value, ops[o].imageUrl)
           ELSE /\ message' = MsgReadError
                /\ Return(o, "encode_read_error", "none")
    /\ UNCHANGED <<textInput, textFileInput, isTextFileMode, imageUrl, decodedText,
                   isProcessing, liveUrls, pipe>>

\* App.js:449-503: aesEncrypt settles.  It rejects when the platform's crypto
\* fails (window.crypto.subtle is undefined outside a secure context); the
\* await is outside the try block, so the handler's promise rejects and nothing
\* else happens.  Otherwise the state is reset, the image built and toBlob
\* called.
EncodeCrypt(o) ==
    /\ ops[o].pc = "enc_crypt"
    /\ \E cryptoFails \in BOOLEAN :
       IF cryptoFails
       THEN /\ Return(o, "encode_unhandled_rejection", "crypto_error")
            /\ UNCHANGED <<isProcessing, message, decodedText, liveUrls, imageUrl>>
       ELSE \E iv \in EncodeIVs :
            /\ isProcessing' = TRUE
            /\ message' = MsgEncoding
            /\ decodedText' = <<>>
            /\ liveUrls' = IF ops[o].imageUrl # NoUrl
                           THEN Revoke(ops[o].imageUrl) ELSE liveUrls
            /\ imageUrl' = NoUrl
            /\ ops' = [ops EXCEPT ![o] =
                   [IdleOp EXCEPT !.pc = "enc_blob",
                       !.blob = EncodedBlob[ops[o].content, ops[o].pin, iv]]]
            /\ lastEvent' = NoEvent
    /\ UNCHANGED <<textInput, textFileInput, isTextFileMode, pipe>>

\* App.js:492-497: the toBlob callback.  With a null blob (the canvas could not
\* be serialised) URL.createObjectURL throws and the callback ends there.
EncodeBlob(o) ==
    /\ ops[o].pc = "enc_blob"
    /\ \E blobIsNull \in BOOLEAN :
        IF blobIsNull
        THEN /\ Return(o, "encode_callback_threw", "null_blob")
             /\ UNCHANGED <<imageUrl, liveUrls, message, isProcessing>>
        ELSE /\ UnusedUrls # {}
             /\ liveUrls' = liveUrls \cup {createObjectURL}
             /\ imageUrl' = createObjectURL
             /\ message' = MsgEncoded
             /\ isProcessing' = FALSE
             /\ Return(o, "encode_done", "none")
    /\ UNCHANGED <<textInput, textFileInput, isTextFileMode, decodedText,
                   pipe>>

(***************************************************************************)
(* handleDecode (App.js:506-552).                                          *)
(***************************************************************************)
\* Why aesDecrypt rejected the payload of a file (history only).
RejectCause(o) ==
    IF deriveKey(ops[o].pin) # deriveKey(<<49>>) THEN "wrong_key"
    ELSE IF ops[o].label = "tampered" THEN "corrupted"
    ELSE "truncated"

\* The message of the catch block that takes the error's own text.
DecodeCatchMessageOfError(error) == error

\* App.js:543-545: the message the catch block sets for error.
DecodeCatchMessage(error) == MsgDecodeError

\* App.js:543-551: catch and finally.
DecodeCatch(o, error, cause) ==
    /\ message' = DecodeCatchMessage(error)
    /\ isProcessing' = FALSE
    /\ Return(o, "decode_failed", cause)
    /\ UNCHANGED decodedText

\* App.js:506-533, the change event of the file input up to the first await.
DecodeStart ==
    /\ ~isProcessing
    /\ FreeSlots # {}
    /\ \E file \in DecodeFiles \cup {NoDecodeFile}, answer \in PromptAnswers(DecodePins) :
        IF file = NoDecodeFile
        THEN /\ answer.cancelled
             /\ Return(NewSlot, "decode_no_file", "none")
             /\ UNCHANGED <<isProcessing, message, textInput, textFileInput,
                            decodedText, liveUrls, imageUrl>>
        ELSE IF answer.cancelled \/ answer.value = <<>>
        THEN /\ message' = MsgDecodeCancelled
             /\ Return(NewSlot, "decode_no_pin", "none")
             /\ UNCHANGED <<isProcessing, textInput, textFileInput,
                            decodedText, liveUrls, imageUrl>>
        ELSE /\ isProcessing' = TRUE
             /\ message' = MsgDecoding
             /\ textInput' = <<>>
             /\ textFileInput' = NoTextFile
             /\ decodedText' = <<>>
             /\ liveUrls' = IF imageUrl # NoUrl THEN Revoke(imageUrl) ELSE liveUrls
             /\ imageUrl' = NoUrl
             /\ ops' = [ops EXCEPT ![NewSlot] =
                    [IdleOp EXCEPT !.pc = "dec_read", !.file = file,
                                   !.pin = answer.value, !.label = file.label,
                                   !.imageUrl = imageUrl,
                                   !.decodedText = decodedText]]
             /\ lastEvent' = NoEvent
    /\ UNCHANGED <<isTextFileMode, pipe>>

\* App.js:533-537: imageToText settles.
DecodeRead(o) ==
    /\ ops[o].pc = "dec_read"
    /\ LET encryptedText == ImageText[ops[o].file]
       IN  IF encryptedText.ok
           THEN /\ ops' = [ops EXCEPT ![o] =
                       [IdleOp EXCEPT !.pc = "dec_crypt", !.pin = ops[o].pin,
                                      !.label = ops[o].label,
                                      !.text = encryptedText.value]]
                /\ lastEvent' = NoEvent
                /\ UNCHANGED <<message, isProcessing, decodedText>>
           ELSE DecodeCatch(o, encryptedText.error, "image_load")
    /\ UNCHANGED <<textInput, textFileInput, isTextFileMode, imageUrl, liveUrls,
                   pipe>>

\* App.js:537-551: aesDecrypt settles: with the plaintext, with the rejection
\* of crypto.subtle.decrypt, or with the failure of the platform's crypto.
DecodeCrypt(o) ==
    /\ ops[o].pc = "dec_crypt"
    /\ \E cryptoFails \in BOOLEAN :
       IF cryptoFails
       THEN DecodeCatch(o, "TypeError", "crypto_error")
       ELSE LET decryptedText == DecryptedText[ops[o].text, ops[o].pin]
            IN  IF decryptedText.ok
                THEN /\ decodedText' = decryptedText.value
                     /\ message' = MsgDecoded
                     /\ isProcessing' = FALSE
                     /\ Return(o, "decode_done", "none")
                ELSE DecodeCatch(o, decryptedText.error, RejectCause(o))
    /\ UNCHANGED <<textInput, textFileInput, isTextFileMode, imageUrl, liveUrls,
                   pipe>>

Next ==
    \/ SetTextInput
    \/ handleTextFileChange
    \/ toggleInputMode
    \/ EncodeStart
    \/ \E o \in Slots : EncodeFileRead(o)
    \/ \E o \in Slots : EncodeCrypt(o)
    \/ \E o \in Slots : EncodeBlob(o)
    \/ DecodeStart
    \/ \E o \in Slots : DecodeRead(o)
    \/ \E o \in Slots : DecodeCrypt(o)

Spec == Init /\ [][Next]_vars

SpecCodec == InitCodec /\ [][NextCodec]_vars

\* Every pending promise settles and every toBlob callback is called: the
\* continuation of an invocation suspended at an await is eventually run.
Fairness ==
    \A o \in Slots :
        /\ WF_vars(EncodeFileRead(o))
        /\ WF_vars(EncodeCrypt(o))
        /\ WF_vars(EncodeBlob(o))
        /\ WF_vars(DecodeRead(o))
        /\ WF_vars(DecodeCrypt(o))

SpecLive == Init /\ [][Next]_vars /\ Fairness

(***************************************************************************)
(* Properties of the codec pipeline, checked under SpecCodec.              *)
(***************************************************************************)
NoZeroByte(b) == \A i \in 1..Len(b) : b[i] # 0

\* No unpaired surrogate: every high surrogate is followed by a low one and
\* every low surrogate preceded by a high one.
WellFormed(s) ==
    \A i \in 1..Len(s) :
        /\ IsHighSurrogate(s[i]) => (i < Len(s) /\ IsLowSurrogate(s[i + 1]))
        /\ IsLowSurrogate(s[i]) => (i > 1 /\ IsHighSurrogate(s[i - 1]))

StartsWithBom(s) == Len(s) > 0 /\ s[1] = 65279

RoundTripRun ==
    /\ pipe.stage = "decrypted"
    /\ pipe.K2 = pipe.K
    /\ NoZeroByte(pipe.payload)

\* C1 as stated: whenever the payload of aesEncrypt(P, K) has no zero byte,
\* writing it into the image, reading the image back and decrypting with K
\* returns exactly P, for every plaintext P.
C1_RoundTripEveryPlaintext ==
    RoundTripRun => (pipe.result.ok /\ pipe.result.value = pipe.P)

\* C1 amended: the round trip returns exactly P for every plaintext P that has
\* no unpaired surrogate and does not begin with U+FEFF.
C1_RoundTrip ==
    (RoundTripRun /\ WellFormed(pipe.P) /\ ~StartsWithBom(pipe.P))
        => (pipe.result.ok /\ pipe.result.value = pipe.P)

C1_Witness ==
    /\ RoundTripRun
    /\ pipe.P = Hello
    /\ pipe.K = <<49, 50, 51, 52>>
    /\ pipe.result.ok
    /\ pipe.result.value = Hello

\* The bytes PBKDF2 sees of a pin: its UTF-8 encoding, zero-padded by HMAC.
PinBytes(pin) == StripTrailingZeros(TextEncode(pin))

C3_SentinelDecoding ==
    pipe.stage \in {"decoded", "decrypted"} =>
        \E k \in 0..Len(pipe.payload) :
            /\ pipe.decoded = SubSeq(pipe.payload, 1, k)
            /\ \A i \in 1..k : pipe.payload[i] # 0
            /\ k = Len(pipe.payload) \/ pipe.payload[k + 1] = 0

C3_Witness ==
    /\ pipe.stage = "decoded"
    /\ pipe.payload = <<7, 255, 0, 7>>
    /\ pipe.decoded = <<7, 255>>

\* C4: the image is ceil(sqrt(n)) wide and ceil(n / width) high, n the length
\* of the payload, so width * height >= n; 33 bytes give 6 x 6 with 3 pixels
\* of padding.
C4_Dimensions ==
    pipe.stage \in {"image", "decoded", "decrypted"} =>
        LET n == Len(pipe.payload)
            w == pipe.image.width
            h == pipe.image.height
        IN  /\ w >= 1 /\ (w - 1) * (w - 1) < n /\ n <= w * w
            /\ h >= 1 /\ (h - 1) * w < n /\ n <= h * w
            /\ Len(pipe.image.data) = 4 * w * h
            /\ n = 33 => (w = 6 /\ h = 6 /\ w * h - n = 3)

C4_Witness ==
    /\ pipe.stage = "image"
    /\ Len(pipe.payload) = 33
    /\ pipe.image.width = 6
    /\ pipe.image.height = 6

\* C5: pixel i < n holds payload[i] in channel 0, 0 in channels 1 and 2 and 255
\* in channel 3; every pixel i >= n is all zero.
C5_PixelLayout ==
    pipe.stage \in {"image", "decoded", "decrypted"} =>
        LET n == Len(pipe.payload)
            d == pipe.image.data
        IN  \A i \in 0..(pipe.image.width * pipe.image.height - 1) :
                IF i < n
                THEN /\ d[4 * i + 1] = pipe.payload[i + 1]
                     /\ d[4 * i + 2] = 0
                     /\ d[4 * i + 3] = 0
                     /\ d[4 * i + 4] = 255
                ELSE \A c \in 1..4 : d[4 * i + c] = 0

C5_Witness ==
    /\ pipe.stage = "image"
    /\ pipe.payload = <<255, 0, 7>>
    /\ pipe.image.data = <<255, 0, 0, 255, 0, 0, 0, 255, 7, 0, 0, 255, 0, 0, 0, 0>>

(***************************************************************************)
(* Properties of the App component, checked under Spec.                    *)
(***************************************************************************)
\* C6: an encode with empty plaintext or an empty or cancelled pin prompt, and
\* a decode with an empty or cancelled pin prompt, stops before any key is
\* derived: no invocation reaches aesEncrypt, imageToText or aesDecrypt with an
\* empty plaintext or pin.
C6_InputFailFast ==
    \A o \in Slots :
        /\ ops[o].pc \in {"enc_crypt", "dec_read", "dec_crypt"} => ops[o].pin # <<>>
        /\ ops[o].pc = "enc_crypt" => ops[o].content # <<>>

\* C7: when aesEncrypt rejects during an encode, handleEncode catches it and
\* shows its encode-error message; the rejection never leaves the handler.
C7_EncodeErrorSurfaced ==
    (lastEvent.cause = "crypto_error" /\ lastEvent.type # "decode_failed")
        => (lastEvent.type = "encode_failed" /\ message = MsgEncodeError)

\* C8: a decode that fails leaves the same visible state whatever made it fail
\* (wrong pin, corrupted or truncated payload, unreadable image): the step sets
\* the one message MsgDecodeError, clears isProcessing, and leaves the decoded
\* text and the image as the decode's start set them.
C8_NonDiscriminatingFailure ==
    [][lastEvent'.type = "decode_failed" =>
          /\ message' = MsgDecodeError
          /\ decodedText' = decodedText
          /\ imageUrl' = imageUrl
          /\ isProcessing' = FALSE]_vars

C8_Witness ==
    /\ lastEvent = Event("decode_failed", "wrong_key")
    /\ message = MsgDecodeError
    /\ decodedText = <<>>
    /\ ~isProcessing

\* C9: at most one generated-image object URL is alive, and it is the one the
\* component holds: a URL is revoked before it is replaced.
C9_SingleImageHandle ==
    /\ Cardinality(liveUrls) <= 1
    /\ \A u \in liveUrls : u = imageUrl

\* C10: at most one encode or decode invocation is in flight.
C10_OneOperationInFlight == Cardinality(InFlight) <= 1

\* C11: when an encode fails because its text file cannot be read, or a decode
\* because its image cannot be loaded, the displayed image and the displayed
\* decoded text are after the failure what they were when the operation started.
C11_IoFailureFrame ==
    [][\A o \in Slots :
          ((EncodeFileRead(o) /\ ~readFileContent(ops[o].textFile).ok)
              \/ (DecodeRead(o) /\ ~ImageText[ops[o].file].ok))
          => (imageUrl' = ops[o].imageUrl /\ decodedText' = ops[o].decodedText)]_vars

\* C12 as stated: the decode, with the right pin, of an image whose payload has
\* a zero byte before its end reports no error and shows a plaintext.
C12_UndetectedTruncation ==
    [][\A o \in Slots :
          (DecodeCrypt(o) /\ ops[o].label = "zero_byte" /\ ops[o].pin = <<49>>
                /\ lastEvent'.cause # "crypto_error")
          => (lastEvent'.type = "decode_done" /\ message' = MsgDecoded)]_vars

\* C12 amended: that decode fails: the text read from the image stops at the
\* zero byte, aesDecrypt rejects it, the decode-error message is shown and the
\* decoded text is left empty.
C12_TruncationRejected ==
    [][\A o \in Slots :
          (DecodeCrypt(o) /\ ops[o].label = "zero_byte" /\ ops[o].pin = <<49>>)
          => /\ Len(ops[o].text) < Len(aesEncrypt(<<65>>, <<49>>, IvOf(TRUE)))
             /\ lastEvent'.type = "decode_failed"
             /\ message' = MsgDecodeError
             /\ decodedText' = decodedText]_vars

C12_Witness ==
    /\ lastEvent = Event("decode_failed", "truncated")
    /\ message = MsgDecodeError
    /\ decodedText = <<>>
    /\ ~isProcessing

\* C13: whenever the processing flag is set it is eventually cleared again: no
\* failure, one inside the toBlob callback included, leaves isProcessing true
\* forever.
C13_Recoverability == isProcessing ~> ~isProcessing

\* C14: when no operation is in flight the image and the decoded text are not
\* both displayed; a completed encode leaves decodedText empty and a completed
\* decode leaves imageUrl null.
C14_ResultExclusivity ==
    /\ InFlight = {} => ~(imageUrl # NoUrl /\ decodedText # <<>>)
    /\ lastEvent.type = "encode_done" => decodedText = <<>>
    /\ lastEvent.type = "decode_done" => imageUrl = NoUrl

====
